---- MODULE Spec2Model ----
(***************************************************************************)
(* Model of the meeting detector: the MeetingDetector class of             *)
(* src/src/detector.ts (subprocess lifecycle, stdout data handler, signal  *)
(* parser, identity normalizer, downstream dedup cache) and the log-stream *)
(* loop of the shell script src/unnamed/part_001 (event accumulator and    *)
(* upstream dedup filter).                                                 *)
(*                                                                         *)
(* Strings are TLA+ strings; substring tests and lower-casing are computed *)
(* character by character.  Time is the millisecond clock Date.now() for   *)
(* the detector and the second clock `date +%s` for the script.            *)
(***************************************************************************)
EXTENDS Integers, Sequences, FiniteSets, TLC

\* ------------------------------------------------------------------ bounds
MaxTicks == 3
MaxSpawn == 2
MaxChunk == 2
MaxListeners == 2

\* ------------------------------------------------------- program constants
\* isDuplicateSignal: `timeDiff < 60000`
DedupWindowMs == 60000
\* trackSignal: `Date.now() - 120000`
CleanupAgeMs == 120000

\* --------------------------------------------------------- string helpers
UpperAlphabet == "ABCDEFGHIJKLMNOPQRSTUVWXYZ"
LowerAlphabet == "abcdefghijklmnopqrstuvwxyz"

CharAt(s, i) == SubSeq(s, i, i)

LowerChar(c) ==
  IF \E i \in 1..26 : CharAt(UpperAlphabet, i) = c
  THEN CharAt(LowerAlphabet, CHOOSE i \in 1..26 : CharAt(UpperAlphabet, i) = c)
  ELSE c

RECURSIVE toLowerCase(_)
toLowerCase(s) ==
  IF Len(s) = 0 THEN ""
  ELSE LowerChar(CharAt(s, 1)) \o toLowerCase(SubSeq(s, 2, Len(s)))

includes(s, sub) ==
  \E i \in 1..(Len(s) - Len(sub) + 1) : SubSeq(s, i, i + Len(sub) - 1) = sub

\* -------------------------------------------------- identity normalizer
\* The branches of transformAppName, in source order: the label, the
\* substrings looked for in the lower-cased front app, those looked for in the
\* lower-cased process name, and the pairs looked for in both at once.
RuleTable ==
  <<
     [label |-> "Slack", app |-> {"slack"}, proc |-> {"slack"},
      both |-> {}],
     [label |-> "Microsoft Teams", app |-> {"msteams"}, proc |-> {"microsoft teams", "teams"},
      both |-> {}],
     [label |-> "Zoom", app |-> {"zoom"}, proc |-> {"zoom"},
      both |-> {}],
     [label |-> "Webex", app |-> {"webex"}, proc |-> {"webex", "cisco webex"},
      both |-> {}],
     [label |-> "Google Meet", app |-> {"google meet"}, proc |-> {"google meet", "meet.google.com"},
      both |-> {<<"chrome", "chrome">>}],
     [label |-> "Skype", app |-> {"skype"}, proc |-> {"skype"},
      both |-> {}],
     [label |-> "Discord", app |-> {"discord"}, proc |-> {"discord"},
      both |-> {}],
     [label |-> "FaceTime", app |-> {"facetime"}, proc |-> {"facetime"},
      both |-> {}],
     [label |-> "GoToMeeting", app |-> {"gotomeeting"}, proc |-> {"gotomeeting", "goto meeting"},
      both |-> {}],
     [label |-> "BlueJeans", app |-> {"bluejeans"}, proc |-> {"bluejeans", "blue jeans"},
      both |-> {}],
     [label |-> "Jitsi Meet", app |-> {"jitsi"}, proc |-> {"jitsi"},
      both |-> {}],
     [label |-> "Whereby", app |-> {"whereby"}, proc |-> {"whereby"},
      both |-> {}],
     [label |-> "8x8", app |-> {"8x8"}, proc |-> {"8x8"},
      both |-> {}],
     [label |-> "RingCentral", app |-> {"ringcentral"}, proc |-> {"ringcentral", "ring central"},
      both |-> {}],
     [label |-> "BigBlueButton", app |-> {"bigbluebutton"}, proc |-> {"bigbluebutton", "big blue button"},
      both |-> {}],
     [label |-> "Amazon Chime", app |-> {"chime"}, proc |-> {"chime", "amazon chime"},
      both |-> {}],
     [label |-> "Google Hangouts", app |-> {"hangouts"}, proc |-> {"hangouts", "google hangouts"},
      both |-> {}],
     [label |-> "Adobe Connect", app |-> {"adobe connect"}, proc |-> {"adobe connect"},
      both |-> {}],
     [label |-> "TeamViewer", app |-> {"teamviewer"}, proc |-> {"teamviewer"},
      both |-> {}],
     [label |-> "AnyDesk", app |-> {"anydesk"}, proc |-> {"anydesk"},
      both |-> {}],
     [label |-> "ClickMeeting", app |-> {"clickmeeting"}, proc |-> {"clickmeeting"},
      both |-> {}],
     [label |-> "Appear.in", app |-> {"appear.in"}, proc |-> {"appear.in"},
      both |-> {}]
  >>

RuleMatches(rule, app, proc) ==
  \/ \E x \in rule.app : includes(app, x)
  \/ \E x \in rule.proc : includes(proc, x)
  \/ \E xy \in rule.both : includes(app, xy[1]) /\ includes(proc, xy[2])

\* the branches whose condition holds for (frontApp, process)
MatchingRules(frontApp, processName) ==
  LET app == toLowerCase(frontApp)
      proc == toLowerCase(processName)
  IN {i \in 1..Len(RuleTable) : RuleMatches(RuleTable[i], app, proc)}

\* transformAppName(frontApp, process): frontApp and processName are "" when the
\* JSON field is undefined (`frontApp?.toLowerCase() || ''`, `frontApp || ...`).
transformAppName_lastMatch(frontApp, processName) ==
  LET m == MatchingRules(frontApp, processName)
  IN IF m = {} THEN (IF frontApp # "" THEN frontApp ELSE "Meeting App")
     ELSE RuleTable[CHOOSE i \in m : \A j \in m : j <= i].label

transformAppName(frontApp, processName) ==
  LET app == toLowerCase(frontApp)
      proc == toLowerCase(processName)
  IN
  IF includes(app, "slack") \/ includes(proc, "slack") THEN "Slack"
  ELSE IF includes(app, "msteams") \/ includes(proc, "microsoft teams")
          \/ includes(proc, "teams") THEN "Microsoft Teams"
  ELSE IF includes(app, "zoom") \/ includes(proc, "zoom") THEN "Zoom"
  ELSE IF includes(app, "webex") \/ includes(proc, "webex")
          \/ includes(proc, "cisco webex") THEN "Webex"
  ELSE IF includes(app, "google meet") \/ includes(proc, "google meet")
          \/ includes(proc, "meet.google.com")
          \/ (includes(app, "chrome") /\ includes(proc, "chrome")) THEN "Google Meet"
  ELSE IF includes(app, "skype") \/ includes(proc, "skype") THEN "Skype"
  ELSE IF includes(app, "discord") \/ includes(proc, "discord") THEN "Discord"
  ELSE IF includes(app, "facetime") \/ includes(proc, "facetime") THEN "FaceTime"
  ELSE IF includes(app, "gotomeeting") \/ includes(proc, "gotomeeting")
          \/ includes(proc, "goto meeting") THEN "GoToMeeting"
  ELSE IF includes(app, "bluejeans") \/ includes(proc, "bluejeans")
          \/ includes(proc, "blue jeans") THEN "BlueJeans"
  ELSE IF includes(app, "jitsi") \/ includes(proc, "jitsi") THEN "Jitsi Meet"
  ELSE IF includes(app, "whereby") \/ includes(proc, "whereby") THEN "Whereby"
  ELSE IF includes(app, "8x8") \/ includes(proc, "8x8") THEN "8x8"
  ELSE IF includes(app, "ringcentral") \/ includes(proc, "ringcentral")
          \/ includes(proc, "ring central") THEN "RingCentral"
  ELSE IF includes(app, "bigbluebutton") \/ includes(proc, "bigbluebutton")
          \/ includes(proc, "big blue button") THEN "BigBlueButton"
  ELSE IF includes(app, "chime") \/ includes(proc, "chime")
          \/ includes(proc, "amazon chime") THEN "Amazon Chime"
  ELSE IF includes(app, "hangouts") \/ includes(proc, "hangouts")
          \/ includes(proc, "google hangouts") THEN "Google Hangouts"
  ELSE IF includes(app, "adobe connect") \/ includes(proc, "adobe connect")
          THEN "Adobe Connect"
  ELSE IF includes(app, "teamviewer") \/ includes(proc, "teamviewer") THEN "TeamViewer"
  ELSE IF includes(app, "anydesk") \/ includes(proc, "anydesk") THEN "AnyDesk"
  ELSE IF includes(app, "clickmeeting") \/ includes(proc, "clickmeeting")
          THEN "ClickMeeting"
  ELSE IF includes(app, "appear.in") \/ includes(proc, "appear.in") THEN "Appear.in"
  ELSE IF frontApp # "" THEN frontApp ELSE "Meeting App"

\* ----------------------------------------------------------- signal parser
\* A line of subprocess output is [kind |-> "blank"], [kind |-> "bad"] (not
\* well-formed JSON) or [kind |-> "obj", obj |-> o] where o is the parsed JSON
\* object: a record holding the fields that are present.  String fields hold
\* the string; camera_active holds the JSON token ("true" is the boolean,
\* "\"true\"" the string).
Field(o, k) == IF k \in DOMAIN o THEN o[k] ELSE ""

\* parseSignal after JSON.parse succeeded
parseSignal_alwaysDerives(o) ==
  [ event |-> Field(o, "event"),
    timestamp |-> Field(o, "timestamp"),
    service |-> transformAppName(Field(o, "front_app"), Field(o, "process")),
    verdict |-> Field(o, "verdict"),
    process |-> Field(o, "process"),
    pid |-> Field(o, "pid"),
    front_app |-> Field(o, "front_app"),
    camera_active |-> Field(o, "camera_active") \in {"\"true\"", "true"} ]

\* parseSignal with `signal.service || transformedService`
parseSignal_keepsUpstream(o) ==
  LET originalService == Field(o, "service")
      transformedService == transformAppName(Field(o, "front_app"), Field(o, "process"))
      finalService == IF originalService = "" THEN transformedService ELSE originalService
  IN [ event |-> Field(o, "event"),
       timestamp |-> Field(o, "timestamp"),
       service |-> finalService,
       verdict |-> Field(o, "verdict"),
       process |-> Field(o, "process"),
       pid |-> Field(o, "pid"),
       front_app |-> Field(o, "front_app"),
       camera_active |-> Field(o, "camera_active") \in {"\"true\"", "true"} ]

parseSignal(o) ==
  LET originalService == Field(o, "service")
      transformedService == transformAppName(Field(o, "front_app"), Field(o, "process"))
      finalService == IF originalService = "microphone" \/ originalService = "camera"
                         \/ originalService = ""
                      THEN transformedService ELSE originalService
  IN [ event |-> Field(o, "event"),
       timestamp |-> Field(o, "timestamp"),
       service |-> finalService,
       verdict |-> Field(o, "verdict"),
       process |-> Field(o, "process"),
       pid |-> Field(o, "pid"),
       front_app |-> Field(o, "front_app"),
       camera_active |-> Field(o, "camera_active") \in {"\"true\"", "true"} ]

\* `${signal.pid}-${signal.service}-${signal.verdict}`
SignalKey(signal) == signal.pid \o "-" \o signal.service \o "-" \o signal.verdict

\* the denylist test of the stdout handler
isNoise_caseSensitive(signal) ==
  includes(signal.process, "afplay") \/ includes(signal.process, "sirincservice")

isNoise(signal) ==
  LET processName == toLowerCase(signal.process)
  IN includes(processName, "afplay") \/ includes(processName, "sirincservice")

\* ----------------------------------------------------------------- inputs
TeamsObj ==
  [event |-> "meeting_signal", timestamp |-> "2025-09-01T14:30:29Z",
   service |-> "microphone", verdict |-> "requested",
   process |-> "Microsoft Teams WebView Helper", pid |-> "7390",
   front_app |-> "MSTeams", camera_active |-> "true"]

ZoomObj(service, pid, processName) ==
  [event |-> "meeting_signal", timestamp |-> "2025-09-01T14:30:29Z",
   service |-> service, verdict |-> "allowed", process |-> processName, pid |-> pid,
   front_app |-> "zoom.us", camera_active |-> "\"false\""]

NoPidObj ==
  [event |-> "meeting_signal", timestamp |-> "2025-09-01T14:30:29Z",
   service |-> "microphone", verdict |-> "allowed", process |-> "zoom.us",
   front_app |-> "zoom.us", camera_active |-> "\"false\""]

BadLine == [kind |-> "bad"]
BlankLine == [kind |-> "blank"]
ObjLine(o) == [kind |-> "obj", obj |-> o]

Lines ==
  { BadLine, BlankLine,
    ObjLine(TeamsObj),
    ObjLine(ZoomObj("microphone", "7390", "zoom.us")),
    ObjLine(ZoomObj("camera", "7390", "zoom.us")),
    ObjLine(NoPidObj),
    ObjLine(ZoomObj("microphone", "7390", "SiriNCService")) }

Chunks == UNION {[1..n -> Lines] : n \in 1..MaxChunk}

\* parseSignal and the denylist test of every input line, evaluated
\* once per line
ParsedLines == [l \in {x \in Lines : x.kind = "obj"} |-> parseSignal(l.obj)]
NoiseLines == [l \in DOMAIN ParsedLines |-> isNoise(ParsedLines[l])]

\* transformAppName of the front app and the process of every input line,
\* evaluated once per pair
LineLabels ==
  [fp \in {<<Field(l.obj, "front_app"), Field(l.obj, "process")>> :
             l \in {x \in Lines : x.kind = "obj"}} |-> transformAppName(fp[1], fp[2])]

\* the same for any line
Parsed(line) ==
  IF line \in DOMAIN ParsedLines THEN ParsedLines[line] ELSE parseSignal(line.obj)
Noise(line) ==
  IF line \in DOMAIN NoiseLines THEN NoiseLines[line] ELSE isNoise(parseSignal(line.obj))

\* ------------------------------------------------------ downstream dedup
\* recentSignals is a Map from key to {timestamp, signal}: a function whose
\* domain is the set of keys present.
EmptyMap == [k \in {} |-> 0]

MapSet(m, k, v) == [x \in DOMAIN m \cup {k} |-> IF x = k THEN v ELSE m[x]]

MapDeleteIf(m, Old(_)) == [x \in {k \in DOMAIN m : ~Old(m[k])} |-> m[x]]

\* isDuplicateSignal(signal), with Date.now() = t
isDuplicateSignal_flipped(cache, signal, t) ==
  IF signal.pid = "" THEN TRUE
  ELSE LET key == SignalKey(signal)
       IN IF key \notin DOMAIN cache THEN FALSE
          ELSE LET timeDiff == t - cache[key].timestamp
               IN timeDiff < DedupWindowMs

isDuplicateSignal_le(cache, signal, t) ==
  IF signal.pid = "" THEN FALSE
  ELSE LET key == SignalKey(signal)
       IN IF key \notin DOMAIN cache THEN FALSE
          ELSE LET timeDiff == t - cache[key].timestamp
               IN timeDiff <= DedupWindowMs

isDuplicateSignal(cache, signal, t) ==
  IF signal.pid = "" THEN FALSE
  ELSE LET key == SignalKey(signal)
       IN IF key \notin DOMAIN cache THEN FALSE
          ELSE LET timeDiff == t - cache[key].timestamp
               IN timeDiff < DedupWindowMs

\* trackSignal(signal), with new Date() = Date.now() = t
trackSignal_forgets(cache, signal, t) == cache

trackSignal_nosweep(cache, signal, t) ==
  IF signal.pid = "" THEN cache
  ELSE MapSet(cache, SignalKey(signal), [timestamp |-> t, signal |-> signal])

trackSignal(cache, signal, t) ==
  IF signal.pid = "" THEN cache
  ELSE LET key == SignalKey(signal)
           set == MapSet(cache, key, [timestamp |-> t, signal |-> signal])
           cutoffTime == t - CleanupAgeMs
           Old(entry) == entry.timestamp < cutoffTime
       IN MapDeleteIf(set, Old)

\* ------------------------------------------------------------- dispatcher
\* Callbacks that can be registered for 'meeting'.  cbThrow is a callback that
\* throws when it is called.
Callbacks == {"cbA", "cbThrow"}
NoCallback == "none"
Throws(cb) == cb = "cbThrow"

\* EventEmitter.emit('meeting', signal): the listeners are called in
\* registration order; the first exception ends the delivery and propagates.
EmitMeeting(ls) ==
  LET bad == {i \in 1..Len(ls) : Throws(ls[i])}
  IN IF bad = {} THEN [calls |-> ls, threw |-> FALSE]
     ELSE LET first == CHOOSE i \in bad : \A j \in bad : i <= j
          IN [calls |-> SubSeq(ls, 1, first), threw |-> TRUE]

\* EventEmitter.emit('error', e) inside handler state st, for line i (0: not
\* in the line loop); cause names what raised e.  With no 'error' listener emit
\* throws e, which nothing catches: the handler is left and the exception
\* reaches the host as an uncaught exception.
EmitError(st, i, cause, nErr) ==
  IF nErr = 0
  THEN [st EXCEPT !.trace = Append(@, [i |-> i, kind |-> "uncaught", cause |-> cause]),
                  !.crashed = TRUE]
  ELSE [st EXCEPT !.trace = Append(@, [i |-> i, kind |-> "error", cause |-> cause])]

\* ---------------------------------------------------- stdout data handler
\* the loop body with a dedup that refreshes the entry of a dropped signal
ProcessLine_sliding(st, i, line, t, ls, nErr) ==
  IF st.crashed \/ line.kind = "blank" THEN st
  ELSE IF line.kind = "bad" THEN EmitError(st, i, "JSON.parse", nErr)
  ELSE
    LET signal == Parsed(line)
        upstream == Field(line.obj, "service")
    IN IF Noise(line)
       THEN [st EXCEPT !.trace = Append(@, [i |-> i, kind |-> "suppressed", signal |-> signal,
                                             upstream |-> upstream])]
       ELSE IF ~isDuplicateSignal(st.cache, signal, t)
       THEN LET d == EmitMeeting(ls)
                ev == [i |-> i, kind |-> "meeting", signal |-> signal,
                       upstream |-> upstream, calls |-> d.calls, threw |-> d.threw]
                st1 == [st EXCEPT !.trace = Append(@, ev)]
            IN IF d.threw
               THEN EmitError(st1, i, "listener", nErr)
               ELSE [st1 EXCEPT !.cache = trackSignal(st.cache, signal, t)]
       ELSE [st EXCEPT !.trace = Append(@, [i |-> i, kind |-> "duplicate", signal |-> signal,
                                             upstream |-> upstream]),
                       !.cache = trackSignal(st.cache, signal, t)]

\* The body of the for loop for line number i of a chunk; st is
\* [cache, trace, crashed], t the clock, ls the 'meeting' listeners, nErr the
\* number of 'error' listeners.  An entry of the trace holds the parsed signal
\* and the service the line came with (upstream).
ProcessLine(st, i, line, t, ls, nErr) ==
  IF st.crashed \/ line.kind = "blank" THEN st
  ELSE IF line.kind = "bad" THEN EmitError(st, i, "JSON.parse", nErr)
  ELSE
    LET signal == Parsed(line)
        upstream == Field(line.obj, "service")
    IN IF Noise(line)
       THEN [st EXCEPT !.trace = Append(@, [i |-> i, kind |-> "suppressed", signal |-> signal,
                                             upstream |-> upstream])]
       ELSE IF ~isDuplicateSignal(st.cache, signal, t)
       THEN LET d == EmitMeeting(ls)
                ev == [i |-> i, kind |-> "meeting", signal |-> signal,
                       upstream |-> upstream, calls |-> d.calls, threw |-> d.threw]
                st1 == [st EXCEPT !.trace = Append(@, ev)]
            IN IF d.threw
               THEN EmitError(st1, i, "listener", nErr)
               ELSE [st1 EXCEPT !.cache = trackSignal(st.cache, signal, t)]
       ELSE [st EXCEPT !.trace = Append(@, [i |-> i, kind |-> "duplicate", signal |-> signal,
                                             upstream |-> upstream])]

\* the for loop taking the lines from the last to the first
RECURSIVE ProcessLines_backwards(_, _, _, _, _, _)
ProcessLines_backwards(st, i, lines, t, ls, nErr) ==
  IF i > Len(lines) THEN st
  ELSE ProcessLine(ProcessLines_backwards(st, i + 1, lines, t, ls, nErr),
                   i, lines[i], t, ls, nErr)

\* for (const line of lines), from line i on
RECURSIVE ProcessLines(_, _, _, _, _, _)
ProcessLines(st, i, lines, t, ls, nErr) ==
  IF i > Len(lines) THEN st
  ELSE ProcessLines(ProcessLine(st, i, lines[i], t, ls, nErr), i + 1, lines, t, ls, nErr)

\* ------------------------------------------------------------------ state
VARIABLES
  ctorOptions,     \* the options object passed to the constructor
  options,         \* this.options
  process,         \* this.process: 0 is undefined, else the handle of a subprocess
  procs,           \* state of every subprocess handle spawned so far
  nspawned,        \* number of subprocesses spawned so far
  listeners,       \* the 'meeting' listeners, in registration order
  errorListeners,  \* number of 'error' listeners
  recentSignals,   \* this.recentSignals
  now,             \* Date.now()
  ticks,           \* number of clock advances so far
  hostCrashed,     \* an exception left an event handler uncaught
  trace,           \* what the last operation did: throw, events, line outcomes
  lastFwd,         \* history: key -> time of the last completed delivery
  bound            \* the bounds of this run: one element of Bounds, never changed

dvars == <<ctorOptions, options, process, procs, nspawned, listeners, errorListeners,
           recentSignals, now, ticks, hostCrashed, trace, lastFwd, bound>>

\* state of the log-stream script (src/unnamed/part_001)
VARIABLES
  current_svc, current_pid, current_app, current_verdict,
  prev_camera_active, prev_front_app, prev_service, prev_process, prev_main_app,
  last_log_time,
  epoch,        \* date +%s
  logTicks,     \* number of clock advances so far
  scriptAlive,  \* the loop's shell has not exited
  printed,      \* records printed while the last line was processed
  stale,        \* history: accumulator fields whose value is older than the
                \* last target_token line
  cand          \* the candidate event the last line brought to the emit check:
                \* <<>> or <<[cam, svc, process, app, fg, emitted]>>

\* prev_verdict and prev_pid are assigned on every emission and never read:
\* they are left out.  prev_front_app and prev_process are not read either;
\* they are kept because they hold the front app and the process name of the
\* last emitted record.
uvars == <<current_svc, current_pid, current_app, current_verdict,
           prev_camera_active, prev_front_app, prev_service, prev_process,
           prev_main_app, last_log_time, epoch, logTicks, scriptAlive, printed,
           stale, cand>>

\* the parser and the normalizer applied to one record on its own
VARIABLES
  fnInput,   \* the object JSON.parse returned
  fnLabel,   \* <<>> or <<transformAppName(front_app, process)>>
  fnSignal   \* <<>> or <<parseSignal's result>>

fvars == <<fnInput, fnLabel, fnSignal>>

\* the output of a subprocess as a stream of newline-terminated lines, cut
\* into the chunks of its 'data' events
VARIABLES
  stream,   \* the lines the subprocess writes
  pos,      \* number of lines delivered to the end
  cut,      \* the last chunk ended inside line pos + 1
  events    \* the 'meeting' and 'error' events emitted so far

cvars == <<stream, pos, cut, events>>

\* the clock advances between handlers by one of these amounts (ms)
Deltas == {DedupWindowMs - 1, DedupWindowMs}

\* A run is bounded in one of three ways: long in time with one subprocess,
\* many subprocesses and listeners with one clock advance, or chunks of
\* several lines at one instant.
Bounds ==
  { [ticks |-> MaxTicks, spawns |-> 1, chunk |-> 1, listeners |-> 1],
    [ticks |-> 1, spawns |-> MaxSpawn, chunk |-> 1, listeners |-> MaxListeners],
    [ticks |-> 0, spawns |-> 1, chunk |-> MaxChunk, listeners |-> 1] }

CtorOptions == {EmptyMap, [debug |-> TRUE, sessionDeduplicationMs |-> 5000]}

\* --------------------------------------------------------------- lifecycle
\* constructor(options)
Constructor(o) ==
  [scriptPath |-> IF "scriptPath" \in DOMAIN o THEN o.scriptPath ELSE "../meeting-detect.sh",
   debug |-> IF "debug" \in DOMAIN o THEN o.debug ELSE FALSE]

DInit ==
  /\ ctorOptions \in CtorOptions
  /\ options = Constructor(ctorOptions)
  /\ process = 0
  /\ procs = [h \in 1..MaxSpawn |-> "none"]
  /\ nspawned = 0
  /\ listeners = <<>>
  /\ errorListeners = 0
  /\ recentSignals = EmptyMap
  /\ now = 0
  /\ ticks = 0
  /\ hostCrashed = FALSE
  /\ trace = <<>>
  /\ lastFwd = EmptyMap
  /\ bound \in Bounds

\* start(callback) that registers the callback before it looks at this.process
StartThrows_registersFirst(cb) ==
  /\ ~hostCrashed
  /\ process # 0
  /\ listeners' = IF cb # NoCallback /\ Len(listeners) < bound.listeners
                  THEN Append(listeners, cb) ELSE listeners
  /\ trace' = <<[i |-> 0, kind |-> "throw", cause |-> "Detector is already running"]>>
  /\ UNCHANGED <<ctorOptions, options, process, procs, nspawned,
                 errorListeners, recentSignals, now, ticks, hostCrashed, lastFwd, bound>>
  /\ UNCHANGED <<uvars, fvars, cvars>>

\* start(callback) while this.process is set: throws before anything else
StartThrows(cb) ==
  /\ ~hostCrashed
  /\ process # 0
  /\ trace' = <<[i |-> 0, kind |-> "throw", cause |-> "Detector is already running"]>>
  /\ UNCHANGED <<ctorOptions, options, process, procs, nspawned, listeners,
                 errorListeners, recentSignals, now, ticks, hostCrashed, lastFwd, bound>>
  /\ UNCHANGED <<uvars, fvars, cvars>>

\* start(callback) while this.process is undefined
StartSpawns(cb) ==
  /\ ~hostCrashed
  /\ process = 0
  /\ nspawned < bound.spawns
  /\ cb = NoCallback \/ Len(listeners) < bound.listeners
  /\ listeners' = IF cb # NoCallback THEN Append(listeners, cb) ELSE listeners
  /\ nspawned' = nspawned + 1
  /\ process' = nspawned + 1
  /\ procs' = [procs EXCEPT ![nspawned + 1] = "running"]
  /\ trace' = <<>>
  /\ UNCHANGED <<ctorOptions, options, errorListeners, recentSignals, now, ticks,
                 hostCrashed, lastFwd, bound>>
  /\ UNCHANGED <<uvars, fvars, cvars>>

\* stop() without the test of this.process: kill is called on undefined
Stop_unguarded ==
  /\ ~hostCrashed
  /\ IF process # 0
     THEN /\ procs' = [procs EXCEPT ![process] = IF @ = "running" THEN "killed" ELSE @]
          /\ process' = 0
          /\ trace' = <<[i |-> 0, kind |-> "stop", h |-> process]>>
     ELSE /\ UNCHANGED <<process, procs>>
          /\ trace' = <<[i |-> 0, kind |-> "throw", cause |-> "TypeError"]>>
  /\ UNCHANGED <<ctorOptions, options, nspawned, listeners, errorListeners,
                 recentSignals, now, ticks, hostCrashed, lastFwd, bound>>
  /\ UNCHANGED <<uvars, fvars, cvars>>

\* stop(); the trace names the subprocess that was sent SIGTERM, 0 when none
Stop ==
  /\ ~hostCrashed
  /\ IF process # 0
     THEN /\ procs' = [procs EXCEPT ![process] = IF @ = "running" THEN "killed" ELSE @]
          /\ process' = 0
     ELSE UNCHANGED <<process, procs>>
  /\ trace' = <<[i |-> 0, kind |-> "stop", h |-> process]>>
  /\ UNCHANGED <<ctorOptions, options, nspawned, listeners, errorListeners,
                 recentSignals, now, ticks, hostCrashed, lastFwd, bound>>
  /\ UNCHANGED <<uvars, fvars, cvars>>

\* onMeeting(callback)
OnMeeting(cb) ==
  /\ ~hostCrashed
  /\ Len(listeners) < bound.listeners
  /\ listeners' = Append(listeners, cb)
  /\ trace' = <<>>
  /\ UNCHANGED <<ctorOptions, options, process, procs, nspawned, errorListeners,
                 recentSignals, now, ticks, hostCrashed, lastFwd, bound>>
  /\ UNCHANGED <<uvars, fvars, cvars>>

\* onError(callback)
OnError ==
  /\ ~hostCrashed
  /\ errorListeners < 1
  /\ errorListeners' = errorListeners + 1
  /\ trace' = <<>>
  /\ UNCHANGED <<ctorOptions, options, process, procs, nspawned, listeners,
                 recentSignals, now, ticks, hostCrashed, lastFwd, bound>>
  /\ UNCHANGED <<uvars, fvars, cvars>>

\* the 'exit' handler of subprocess h
ProcExit(h) ==
  /\ ~hostCrashed
  /\ procs[h] \in {"running", "killed"}
  /\ procs' = [procs EXCEPT ![h] = "exited"]
  /\ process' = 0
  /\ trace' = <<[i |-> 0, kind |-> "exit", h |-> h]>>
  /\ UNCHANGED <<ctorOptions, options, nspawned, listeners, errorListeners,
                 recentSignals, now, ticks, hostCrashed, lastFwd, bound>>
  /\ UNCHANGED <<uvars, fvars, cvars>>

\* the 'error' handler of subprocess h: the subprocess could not be spawned,
\* could not be killed, ...  Node does not promise an 'exit' after it.
ProcError(h) ==
  /\ ~hostCrashed
  /\ procs[h] \in {"running", "killed"}
  /\ LET st == EmitError([cache |-> recentSignals, trace |-> <<>>, crashed |-> FALSE],
                         0, "subprocess", errorListeners)
     IN /\ trace' = st.trace
        /\ hostCrashed' = st.crashed
  /\ UNCHANGED <<ctorOptions, options, process, procs, nspawned, listeners,
                 errorListeners, recentSignals, now, ticks, lastFwd, bound>>
  /\ UNCHANGED <<uvars, fvars, cvars>>

\* keys delivered to every listener by the handler whose trace is tr
Delivered(tr) ==
  {SignalKey(tr[j].signal) : j \in {j \in 1..Len(tr) :
      tr[j].kind = "meeting" /\ ~tr[j].threw /\ tr[j].signal.pid # ""}}

\* the entries of a handler's trace, each with the subprocess whose output
\* the handler was called for
FromProcess(tr, h) ==
  [j \in 1..Len(tr) |->
     [k \in DOMAIN tr[j] \cup {"h"} |-> IF k = "h" THEN h ELSE tr[j][k]]]

\* the stdout 'data' handler of subprocess h, called with a chunk of lines
DataHandler(h, chunk) ==
  /\ ~hostCrashed
  /\ procs[h] \in {"running", "killed"}
  /\ Len(chunk) <= bound.chunk
  /\ \E st \in {ProcessLines([cache |-> recentSignals, trace |-> <<>>, crashed |-> FALSE],
                              1, chunk, now, listeners, errorListeners)} :
       \E done \in {Delivered(st.trace)} :
        /\ recentSignals' = st.cache
        /\ trace' = FromProcess(st.trace, h)
        /\ hostCrashed' = st.crashed
        /\ lastFwd' = [k \in DOMAIN lastFwd \cup done |->
                         IF k \in done THEN now ELSE lastFwd[k]]
  /\ UNCHANGED <<ctorOptions, options, process, procs, nspawned, listeners,
                 errorListeners, now, ticks, bound>>
  /\ UNCHANGED <<uvars, fvars>>

\* a 'data' event whose chunk is made of whole lines
Data(h, chunk) ==
  /\ DataHandler(h, chunk)
  /\ UNCHANGED cvars

\* time passes
Tick(d) ==
  /\ ~hostCrashed
  /\ ticks < bound.ticks
  /\ now' = now + d
  /\ ticks' = ticks + 1
  /\ trace' = <<>>
  /\ UNCHANGED <<ctorOptions, options, process, procs, nspawned, listeners,
                 errorListeners, recentSignals, hostCrashed, lastFwd, bound>>
  /\ UNCHANGED <<uvars, fvars, cvars>>

\* ===================================================== the log-stream script
\* `time_diff -ge 10`
CooldownSeconds == 10
MaxLogTicks == 2

\* normalize_app with `==` against the name itself instead of the pattern
\* *name*
normalize_app_exact(process_name) ==
  IF process_name = "Microsoft Teams" THEN "Microsoft Teams"
  ELSE IF process_name = "Google Chrome" \/ process_name = "Chrome Helper"
  THEN "Google Chrome"
  ELSE IF process_name = "Slack" THEN "Slack"
  ELSE process_name

\* normalize_app: bash pattern matches are case-sensitive
normalize_app(process_name) ==
  IF includes(process_name, "Microsoft Teams") THEN "Microsoft Teams"
  ELSE IF includes(process_name, "Google Chrome") \/ includes(process_name, "Chrome Helper")
  THEN "Google Chrome"
  ELSE IF includes(process_name, "Slack") THEN "Slack"
  ELSE process_name

Digits == "0123456789"
IsDigit(c) == \E i \in 1..10 : CharAt(Digits, i) = c

\* the longest run of digits of s that starts at position i
RECURSIVE DigitRun(_, _)
DigitRun(s, i) ==
  IF i <= Len(s) /\ IsDigit(CharAt(s, i)) THEN CharAt(s, i) \o DigitRun(s, i + 1) ELSE ""

\* [[ "$line" =~ target_token=\{pid:([0-9]+) ]]: BASH_REMATCH[1] of the leftmost
\* match, "" when the line does not match
TokenPrefix == "target_token={pid:"
TargetPid(line) ==
  LET n == Len(TokenPrefix)
      at == {i \in 1..(Len(line) - n + 1) : /\ SubSeq(line, i, i + n - 1) = TokenPrefix
                                             /\ DigitRun(line, i + n) # ""}
  IN IF at = {} THEN ""
     ELSE DigitRun(line, n + CHOOSE i \in at : \A j \in at : i <= j)

\* the service assignment of the loop body
LineService(line, svc) ==
  IF includes(line, "kTCCServiceMicrophone") THEN "microphone"
  ELSE IF includes(line, "kTCCServiceCamera") THEN "camera"
  ELSE svc

\* the verdict assignment of the loop body
LineVerdict(line, verdict) ==
  IF includes(line, "Access Allowed") \/ includes(line, "Auth Granted")
     \/ includes(line, "Allow") THEN "allowed"
  ELSE IF includes(line, "Denied") THEN "denied"
  ELSE IF includes(line, "FORWARD") THEN "requested"
  ELSE verdict

\* lines of the TCC log stream
LogLines ==
  { "tccd AUTHREQ_CTX service=kTCCServiceMicrophone",
    "tccd AUTHREQ_CTX service=kTCCServiceCamera",
    "tccd AUTHREQ_RESULT Auth Granted",
    "tccd AUTHREQ_RESULT Denied",
    "tccd FORWARD request",
    "tccd target_token={pid:7390, auid:501}",
    "tccd target_token={pid:812, auid:501}",
    "tccd kTCCServiceCamera Access Allowed target_token={pid:812}",
    "tccd attribution for request" }

\* what the tests of the loop body find in each line, evaluated once per line:
\* the service and the verdict the line sets (NotFound when it sets none) and
\* the pid of its target_token
NotFound == "<none>"
LineFacts ==
  [line \in LogLines |->
     [svc |-> LineService(line, NotFound), verdict |-> LineVerdict(line, NotFound),
      pid |-> TargetPid(line)]]
Found(fact, current) == IF fact = NotFound THEN current ELSE fact

\* the accumulator fields a line assigns
SetBy(line) ==
  {f \in {"svc", "verdict"} : LineFacts[line][f] # NotFound}

\* `ps -p pid -o comm=` followed by basename: the names a process can have,
\* or PsFailed when the process is gone (ps exits non-zero; under
\* `set -euo pipefail` the assignment fails and the loop's shell exits)
PsFailed == "<ps failed>"
ProcessNames == {"Microsoft Teams", "Microsoft Teams WebView Helper", "zoom.us"}
FrontApps == {"MSTeams", "Finder"}

\* main and helper processes of four multi-process bundles
BundleNames ==
  {"Microsoft Teams", "Microsoft Teams Helper (Renderer)",
   "Google Chrome", "Google Chrome Helper (GPU)",
   "Slack", "Slack Helper",
   "Discord", "Discord Helper (Renderer)"}

\* normalize_app of every process name, evaluated once per name
NormalizedApps ==
  [a \in ProcessNames \cup BundleNames \cup {PsFailed} |-> normalize_app(a)]

\* current_state="${cam_now}|${current_svc}|${normalized_app}": of the context
\* of a candidate the front app is not part of the state
StateKey_withFrontApp(cam, svc, normalized_app, fg) ==
  cam \o "|" \o svc \o "|" \o normalized_app \o "|" \o fg

StateKey(cam, svc, normalized_app, fg) ==
  cam \o "|" \o svc \o "|" \o normalized_app

\* [[ "$current_state" != "$previous_state" ]] || [[ $time_diff -ge 10 ]]
ShouldLog_gt(current_state, previous_state, time_diff) ==
  current_state # previous_state \/ time_diff > CooldownSeconds

ShouldLog(current_state, previous_state, time_diff) ==
  current_state # previous_state \/ time_diff >= CooldownSeconds

UInit ==
  /\ current_svc = "" /\ current_pid = "" /\ current_app = "" /\ current_verdict = ""
  /\ prev_camera_active = "" /\ prev_front_app = "" /\ prev_service = ""
  /\ prev_process = "" /\ prev_main_app = ""
  /\ last_log_time = 0
  /\ epoch = 100 * CooldownSeconds
  /\ logTicks = 0
  /\ scriptAlive = TRUE
  /\ printed = <<>>
  /\ stale = {}
  /\ cand = <<>>

\* one iteration of `while IFS= read -r line` for a line without target_token:
\* only the accumulation
ReadLine(line) ==
  /\ scriptAlive
  /\ LineFacts[line].pid = ""
  /\ current_svc' = Found(LineFacts[line].svc, current_svc)
  /\ current_verdict' = Found(LineFacts[line].verdict, current_verdict)
  /\ printed' = <<>>
  /\ stale' = stale \ SetBy(line)
  /\ cand' = <<>>
  /\ UNCHANGED <<current_pid, current_app, prev_camera_active, prev_front_app,
                 prev_service, prev_process, prev_main_app, last_log_time, epoch,
                 logTicks, scriptAlive>>
  /\ UNCHANGED <<dvars, fvars, cvars>>

\* one iteration for a line with target_token, with the answers of the context
\* probes: ps (app), front_app (fg), camera_active (cam)
ResolveLine(line, app, fg, cam) ==
  LET svc == Found(LineFacts[line].svc, current_svc)
      verdict == Found(LineFacts[line].verdict, current_verdict)
      pid == LineFacts[line].pid
      normalized_app == NormalizedApps[app]
      current_state == StateKey(cam, svc, normalized_app, fg)
      previous_state == prev_camera_active \o "|" \o prev_service \o "|" \o prev_main_app
      time_diff == epoch - last_log_time
      keepPrev == UNCHANGED <<prev_camera_active, prev_front_app, prev_service,
                              prev_process, prev_main_app, last_log_time>>
  IN
  /\ scriptAlive
  /\ pid # ""
  /\ UNCHANGED <<epoch, logTicks>>
  /\ UNCHANGED <<dvars, fvars, cvars>>
  /\ IF app = PsFailed
     THEN \* current_app_full=$(ps ... | tail -1) fails: errexit ends the loop
          /\ current_svc' = svc /\ current_verdict' = verdict /\ current_pid' = pid
          /\ UNCHANGED current_app
          /\ scriptAlive' = FALSE
          /\ printed' = <<>>
          /\ UNCHANGED stale
          /\ cand' = <<>>
          /\ keepPrev
     ELSE IF svc # ""
     THEN \* complete info: emit if the state changed or the cooldown passed, reset
          /\ IF ShouldLog(current_state, previous_state, time_diff)
             THEN /\ printed' = <<[event |-> "meeting_signal", service |-> svc,
                                   verdict |-> verdict, process |-> app, pid |-> pid,
                                   front_app |-> fg, camera_active |-> cam]>>
                  /\ prev_camera_active' = cam
                  /\ prev_front_app' = fg
                  /\ prev_service' = svc
                  /\ prev_process' = app
                  /\ prev_main_app' = normalized_app
                  /\ last_log_time' = epoch
                  /\ cand' = <<[cam |-> cam, svc |-> svc, process |-> app,
                               app |-> normalized_app, fg |-> fg, emitted |-> TRUE]>>
             ELSE /\ printed' = <<>>
                  /\ keepPrev
                  /\ cand' = <<[cam |-> cam, svc |-> svc, process |-> app,
                               app |-> normalized_app, fg |-> fg, emitted |-> FALSE]>>
          /\ current_svc' = "" /\ current_pid' = "" /\ current_app' = ""
          /\ current_verdict' = ""
          /\ stale' = {}
          /\ UNCHANGED scriptAlive
     ELSE \* target_token while no service is known: nothing is printed, and the
          \* reset, which is inside the emit check, is not reached
          /\ current_svc' = svc /\ current_verdict' = verdict
          /\ current_pid' = pid /\ current_app' = app
          /\ printed' = <<>>
          /\ stale' = {f \in {"svc", "verdict"} :
                         [svc |-> svc, verdict |-> verdict][f] # ""}
          /\ cand' = <<>>
          /\ UNCHANGED scriptAlive
          /\ keepPrev

\* time passes between two lines
LogTick(d) ==
  /\ scriptAlive
  /\ logTicks < MaxLogTicks
  /\ epoch' = epoch + d
  /\ logTicks' = logTicks + 1
  /\ printed' = <<>>
  /\ cand' = <<>>
  /\ UNCHANGED <<current_svc, current_pid, current_app, current_verdict,
                 prev_camera_active, prev_front_app, prev_service, prev_process,
                 prev_main_app, last_log_time, scriptAlive, stale>>
  /\ UNCHANGED <<dvars, fvars, cvars>>

LogDeltas == {1, CooldownSeconds - 1}

\* ============================================ the script feeding the detector
\* What JSON.parse makes of the line json() printed for a record: every value is
\* a JSON string, camera_active too.  (json() escapes backslash and double
\* quote; the values here contain neither.  parent_pid, process_path,
\* window_title and session_id are printed too and never read; timestamp is
\* printed and copied into the signal, and left out here.)
JsonRecord(rec) ==
  [event |-> rec.event, service |-> rec.service, verdict |-> rec.verdict,
   process |-> rec.process, pid |-> rec.pid, front_app |-> rec.front_app,
   camera_active |-> "\"" \o rec.camera_active \o "\""]

\* the record the script printed last reaches the stdout handler of
\* subprocess h as a chunk of its own
Forward(h) ==
  /\ printed # <<>>
  /\ Data(h, <<ObjLine(JsonRecord(printed[1]))>>)

\* the log lines of one microphone grant
GrantLines ==
  { "tccd AUTHREQ_CTX service=kTCCServiceMicrophone",
    "tccd AUTHREQ_RESULT Auth Granted",
    "tccd target_token={pid:7390, auid:501}" }

\* the record is presented again after one of these amounts (ms)
ReplayDeltas == {5000, DedupWindowMs}

\* the grant is logged at time 0, before the record is presented again
GrantRead(line) == now = 0 /\ ReadLine(line)
GrantResolve(line, fg, cam) == now = 0 /\ ResolveLine(line, "Microsoft Teams", fg, cam)
Replay(d) == printed # <<>> /\ Tick(d)

\* =========================================== the script on helper processes
\* the service lines and the target_token lines of two processes
ServiceLines ==
  { "tccd AUTHREQ_CTX service=kTCCServiceMicrophone",
    "tccd AUTHREQ_CTX service=kTCCServiceCamera" }
TokenLines ==
  { "tccd target_token={pid:7390, auid:501}",
    "tccd target_token={pid:812, auid:501}" }

BundleRead(line) == line \in ServiceLines /\ ReadLine(line)
BundleResolve(line, app, cam) ==
  line \in TokenLines /\ app \in BundleNames /\ ResolveLine(line, app, "Finder", cam)

\* ================================== a stream of records with the same key
\* the record is presented again after one of these amounts (ms)
StreamDeltas == {20000, DedupWindowMs - 1}

\* the stdout handler of subprocess h is called with the Teams record
StreamData(h) == Data(h, <<ObjLine(TeamsObj)>>)

\* time passes once the record has been handled at the current instant
StreamTick(d) ==
  /\ trace # <<>>
  /\ trace[1].kind \in {"meeting", "duplicate"}
  /\ Tick(d)

\* ============================================== the stream cut into chunks
MaxStream == 2

\* the streams: up to MaxStream records
StreamLines ==
  { ObjLine(TeamsObj),
    ObjLine(ZoomObj("microphone", "7390", "zoom.us")),
    ObjLine(ZoomObj("camera", "7390", "zoom.us")) }
Streams == UNION {[1..n -> StreamLines] : n \in 0..MaxStream}

\* A chunk boundary inside a record leaves its head at the end of one chunk
\* and its tail at the start of the next.  The handler splits each chunk on
\* newlines by itself, so each part is a line of its own; neither is
\* well-formed JSON (the head lacks the closing brace, the tail the opening
\* one), so JSON.parse throws on it.
Fragment(line, part) == [kind |-> "bad", part |-> part, of |-> line]

\* the 'meeting' and 'error' events among the entries of a handler's trace
RECURSIVE EventsOf(_)
EventsOf(tr) ==
  IF tr = <<>> THEN <<>>
  ELSE LET e == tr[1]
           rest == EventsOf(Tail(tr))
       IN IF e.kind = "meeting"
          THEN <<[kind |-> "meeting", signal |-> e.signal, calls |-> e.calls]>> \o rest
          ELSE IF e.kind \in {"error", "uncaught"}
          THEN <<[kind |-> e.kind, cause |-> e.cause]>> \o rest
          ELSE rest

CInit ==
  /\ stream \in Streams
  /\ pos = 0
  /\ cut = FALSE
  /\ events = <<>>

\* a 'data' event of subprocess h: the tail of the line the last chunk cut,
\* n whole lines and, if split, the head of the line after them
Deliver(h, n, split) ==
  LET base == pos + (IF cut THEN 1 ELSE 0)
      tail == IF cut THEN <<Fragment(stream[pos + 1], "tail")>> ELSE <<>>
      whole == SubSeq(stream, base + 1, base + n)
      head == IF split THEN <<Fragment(stream[base + n + 1], "head")>> ELSE <<>>
  IN /\ base + n + (IF split THEN 1 ELSE 0) <= Len(stream)
     /\ tail \o whole \o head # <<>>
     /\ DataHandler(h, tail \o whole \o head)
     /\ pos' = base + n
     /\ cut' = split
     /\ events' = events \o EventsOf(trace')
     /\ UNCHANGED stream

\* onError(callback) before any output
ListenForErrors == pos = 0 /\ ~cut /\ OnError

\* ===================================== the parser and the normalizer alone
FrontNames ==
  {"", "Finder", "Google Chrome", "GOOGLE CHROME", "MSTeams", "Microsoft Teams",
   "zoom.us", "Skype"}

ProcNames ==
  {"", "meet.google.com helper", "Google Chrome Helper", "Google Chrome Helper (Jitsi)",
   "Chrome Hangouts Helper", "Microsoft Teams WebView Helper", "Slack Helper (Zoom)",
   "ZOOM.US", "launchd"}

\* the service field: absent, or one of these strings
NoField == "<absent>"
ServiceNames == {NoField, "", "microphone", "camera", "Screen Capture"}

RecordOf(service, frontApp, processName) ==
  LET rest == [event |-> "meeting_signal", verdict |-> "allowed", pid |-> "812",
               front_app |-> frontApp, process |-> processName,
               camera_active |-> "\"false\""]
  IN IF service = NoField THEN rest
     ELSE [k \in DOMAIN rest \cup {"service"} |->
             IF k = "service" THEN service ELSE rest[k]]

Records ==
  {RecordOf(sv, f, pr) : sv \in ServiceNames, f \in FrontNames, pr \in ProcNames}

FInit ==
  /\ fnInput \in Records \cup {TeamsObj}
  /\ fnLabel = <<>>
  /\ fnSignal = <<>>

\* this.transformAppName(signal.front_app, signal.process)
Normalize ==
  /\ fnLabel = <<>>
  /\ fnLabel' = <<transformAppName(Field(fnInput, "front_app"), Field(fnInput, "process"))>>
  /\ UNCHANGED <<fnInput, fnSignal>>
  /\ UNCHANGED <<dvars, uvars, cvars>>

\* this.parseSignal(line), line being the JSON text of fnInput
Parse ==
  /\ fnSignal = <<>>
  /\ fnSignal' = <<parseSignal(fnInput)>>
  /\ UNCHANGED <<fnInput, fnLabel>>
  /\ UNCHANGED <<dvars, uvars, cvars>>

\* ============================================================ specifications
vars == <<dvars, uvars, fvars, cvars>>

Init == DInit /\ UInit /\ FInit /\ fnInput = TeamsObj /\ CInit /\ stream = <<>>

\* the detector, fed by any subprocess output
Next ==
  \/ \E cb \in Callbacks \cup {NoCallback} : StartThrows(cb)
  \/ \E cb \in Callbacks \cup {NoCallback} : StartSpawns(cb)
  \/ Stop
  \/ \E cb \in Callbacks : OnMeeting(cb)
  \/ OnError
  \/ \E h \in 1..MaxSpawn : ProcExit(h)
  \/ \E h \in 1..MaxSpawn : ProcError(h)
  \/ \E h \in 1..MaxSpawn, chunk \in Chunks : Data(h, chunk)
  \/ \E d \in Deltas : Tick(d)

Spec == Init /\ [][Next]_vars

\* the script, fed by any log stream
InitUp == UInit /\ DInit /\ ctorOptions = EmptyMap /\ bound.ticks = 0
          /\ FInit /\ fnInput = TeamsObj /\ CInit /\ stream = <<>>

NextUp ==
  \/ \E line \in LogLines : ReadLine(line)
  \/ \E line \in LogLines, app \in ProcessNames \cup {PsFailed}, fg \in FrontApps,
        cam \in {"true", "false"} : ResolveLine(line, app, fg, cam)
  \/ \E d \in LogDeltas : LogTick(d)

SpecUp == InitUp /\ [][NextUp]_vars

\* the script, fed by the accesses of the processes of the bundles
NextBundle ==
  \/ \E line \in ServiceLines : BundleRead(line)
  \/ \E line \in TokenLines, app \in BundleNames, cam \in {"true", "false"} :
        BundleResolve(line, app, cam)
  \/ \E d \in LogDeltas : LogTick(d)

SpecBundle == InitUp /\ [][NextBundle]_vars

\* the subprocess of the active session writes one record
SessionData(line) == process # 0 /\ Data(process, <<line>>)

\* a detector that is started, stopped and started again with callbacks, and
\* whose subprocesses write one record at a time
InitRestart == DInit /\ UInit /\ FInit /\ fnInput = TeamsObj /\ CInit /\ stream = <<>>
               /\ bound.spawns = MaxSpawn

NextRestart ==
  \/ \E cb \in Callbacks \cup {NoCallback} : StartSpawns(cb)
  \/ \E cb \in Callbacks \cup {NoCallback} : StartThrows(cb)
  \/ Stop
  \/ OnError
  \/ \E h \in 1..MaxSpawn : ProcExit(h)
  \/ \E line \in StreamLines : SessionData(line)

SpecRestart == InitRestart /\ [][NextRestart]_vars

\* a detector, started at most once, that receives a stream cut in any way
InitChunks == DInit /\ UInit /\ FInit /\ fnInput = TeamsObj /\ CInit
              /\ bound.chunk = MaxChunk

NextChunks ==
  \/ \E cb \in Callbacks \cup {NoCallback} : StartSpawns(cb)
  \/ ListenForErrors
  \/ \E h \in 1..MaxSpawn, n \in 0..MaxStream, split \in BOOLEAN : Deliver(h, n, split)

SpecChunks == InitChunks /\ [][NextChunks]_vars

\* the parser and the normalizer, applied to any record
InitFn == FInit /\ DInit /\ UInit /\ ctorOptions = EmptyMap /\ bound.ticks = 0
          /\ CInit /\ stream = <<>>

NextFn == Normalize \/ Parse

SpecFn == InitFn /\ [][NextFn]_vars

\* the script on the lines of a grant at time 0, its output fed to a started
\* detector and presented to it again later
InitPipe == UInit /\ DInit /\ ctorOptions = EmptyMap /\ bound.ticks = MaxTicks
            /\ FInit /\ fnInput = TeamsObj /\ CInit /\ stream = <<>>

NextPipe ==
  \/ \E cb \in Callbacks \cup {NoCallback} : StartSpawns(cb)
  \/ \E line \in GrantLines : GrantRead(line)
  \/ \E line \in GrantLines, fg \in FrontApps, cam \in {"true", "false"} :
        GrantResolve(line, fg, cam)
  \/ \E h \in 1..MaxSpawn : Forward(h)
  \/ \E d \in ReplayDeltas : Replay(d)

SpecPipe == InitPipe /\ [][NextPipe]_vars

\* a started detector to which the same record is presented at every instant
NextStream ==
  \/ \E cb \in Callbacks \cup {NoCallback} : StartSpawns(cb)
  \/ OnError
  \/ Stop
  \/ \E h \in 1..MaxSpawn : StreamData(h)
  \/ \E d \in StreamDeltas : StreamTick(d)

SpecStream == InitPipe /\ [][NextStream]_vars

\* ==================================================================== claims
ThrowEntry == [i |-> 0, kind |-> "throw", cause |-> "Detector is already running"]

\* the handler whose trace is tr delivered a signal with a pid to every
\* listener, so it went on to trackSignal's upsert
Upserted(tr) ==
  \E j \in 1..Len(tr) :
    tr[j].kind = "meeting" /\ ~tr[j].threw /\ tr[j].signal.pid # ""

\* the suppression window the constructor was asked for
ConfiguredWindowMs ==
  IF "sessionDeduplicationMs" \in DOMAIN ctorOptions
  THEN ctorOptions.sessionDeduplicationMs ELSE 60000

\* C1: a signal with a pid whose key was last delivered D ms ago is dropped
\* when D < 60000 and forwarded when D >= 60000 (first line of a chunk, so
\* that the state before the handler is the state the line meets).
C1_SuppressionWindow ==
  [][\A j \in 1..Len(trace') :
       (/\ trace'[j].i = 1
        /\ trace'[j].kind \in {"meeting", "duplicate"}
        /\ trace'[j].signal.pid # ""
        /\ SignalKey(trace'[j].signal) \in DOMAIN lastFwd)
       => IF now' - lastFwd[SignalKey(trace'[j].signal)] < 60000
          THEN trace'[j].kind = "duplicate"
          ELSE trace'[j].kind = "meeting"]_vars

\* C1 witness: a signal was dropped 59999 ms after the delivery of its key
C1_DroppedInsideWindow ==
  \E j \in 1..Len(trace) :
    /\ trace[j].kind = "duplicate"
    /\ SignalKey(trace[j].signal) \in DOMAIN lastFwd
    /\ now - lastFwd[SignalKey(trace[j].signal)] = 59999

\* C2: a signal with an empty pid that reaches the dedup is never dropped as a
\* duplicate: it is emitted to the listeners.
C2_EmptyPidForwarded ==
  \A j \in 1..Len(trace) :
    (trace[j].kind \in {"meeting", "duplicate"} /\ trace[j].signal.pid = "")
    => trace[j].kind = "meeting"

\* C2 witness: one chunk carried the same signal without pid twice, both
\* were emitted, while the cache held entries
C2_EmptyPidTwice ==
  /\ Len(trace) = 2
  /\ trace[1].kind = "meeting" /\ trace[2].kind = "meeting"
  /\ trace[1].signal.pid = "" /\ trace[2].signal = trace[1].signal
  /\ recentSignals # EmptyMap

\* C3 as stated: after an upsert at time now no entry has
\* now - timestamp >= 120000.
C3_NoEntryAtEvictionAge ==
  Upserted(trace)
  => \A k \in DOMAIN recentSignals : ~(now - recentSignals[k].timestamp >= 120000)

\* C3 amended: after an upsert at time now no entry has
\* now - timestamp > 120000, and a signal whose key was delivered before and
\* is no longer in the cache is forwarded.
C3_Eviction ==
  /\ [](Upserted(trace)
        => \A k \in DOMAIN recentSignals : ~(now - recentSignals[k].timestamp > 120000))
  /\ [][\A j \in 1..Len(trace') :
          (/\ trace'[j].i = 1
           /\ trace'[j].kind \in {"meeting", "duplicate"}
           /\ trace'[j].signal.pid # ""
           /\ SignalKey(trace'[j].signal) \in DOMAIN lastFwd
           /\ SignalKey(trace'[j].signal) \notin DOMAIN recentSignals)
          => trace'[j].kind = "meeting"]_vars

\* C3 witness: an upsert has just swept out the entry of a key delivered earlier
C3_Evicted ==
  /\ Upserted(trace)
  /\ \E k \in DOMAIN lastFwd : k \notin DOMAIN recentSignals

\* C4: with the window W given to the constructor, a signal with a pid whose
\* key was last delivered D ms ago is dropped iff D < W.
C4_ConfiguredWindow ==
  [][\A j \in 1..Len(trace') :
       (/\ trace'[j].i = 1
        /\ trace'[j].kind \in {"meeting", "duplicate"}
        /\ trace'[j].signal.pid # ""
        /\ SignalKey(trace'[j].signal) \in DOMAIN lastFwd)
       => (trace'[j].kind = "duplicate"
           <=> now' - lastFwd[SignalKey(trace'[j].signal)] < ConfiguredWindowMs)]_vars

\* C5: a start() that throws 'Detector is already running' happens only while
\* this.process is set and changes nothing; while this.process is set no
\* subprocess is spawned and the only event of a start() is the throw.
C5_StartWhileRunning ==
  [][/\ trace' = <<ThrowEntry>>
          => /\ process # 0
             /\ UNCHANGED <<process, procs, nspawned, listeners, errorListeners,
                            recentSignals, options, hostCrashed>>
     /\ process # 0 => nspawned' = nspawned
     /\ \A cb \in Callbacks \cup {NoCallback} :
          StartThrows(cb) => (listeners' = listeners /\ trace' = <<ThrowEntry>>)]_vars

\* C5 witness: start(callback) has thrown while a session with a registered
\* listener was active
C5_Thrown ==
  /\ trace = <<ThrowEntry>>
  /\ process # 0
  /\ Len(listeners) >= 1

\* C6: stop() clears this.process at once, and this.process is cleared only
\* by stop() or by the exit of the subprocess it names.
C6_SessionStaysActive ==
  [][/\ Stop => process' = 0
     /\ (process # 0 /\ process' = 0) => (Stop \/ ProcExit(process))]_vars

\* C7: after the 'error' event or the exit of the subprocess this.process
\* names, with an error listener registered, this.process is cleared.
C7_FailureClearsSession ==
  [][\A h \in 1..MaxSpawn :
       ((ProcError(h) \/ ProcExit(h)) /\ h = process /\ errorListeners >= 1)
       => process' = 0]_vars

\* C8: a line that is not well-formed JSON is reported as an 'error' event and
\* never leaves the handler with an uncaught exception.
C8_BadLineNeverFatal ==
  \A j \in 1..Len(trace) :
    trace[j].kind \in {"error", "uncaught"} /\ trace[j].cause = "JSON.parse"
    => trace[j].kind = "error" /\ ~hostCrashed

\* C9: a start() that follows an earlier session finds the cache empty.
C9_CacheDiscardedOnRestart ==
  [][((\E cb \in Callbacks \cup {NoCallback} : StartSpawns(cb)) /\ nspawned >= 1)
       => recentSignals' = EmptyMap]_vars

\* C10: a target_token line met while no service is set prints nothing and
\* leaves service, verdict, pid and app empty.
C10_ResetWithoutService ==
  [][\A line \in LogLines, app \in ProcessNames :
       (/\ LineFacts[line].pid # ""
        /\ Found(LineFacts[line].svc, current_svc) = ""
        /\ \E fg \in FrontApps, cam \in {"true", "false"} : ResolveLine(line, app, fg, cam))
       => /\ printed' = <<>>
          /\ current_svc' = "" /\ current_verdict' = ""
          /\ current_pid' = "" /\ current_app' = ""]_vars

\* C11: the service and the verdict of a printed record were set by a line
\* that arrived after the previous target_token line (or by the printing
\* line itself), and its pid is the pid of the printing line.
C11_NoLeftoverField ==
  [][\A line \in LogLines, app \in ProcessNames, fg \in FrontApps, cam \in {"true", "false"} :
       (ResolveLine(line, app, fg, cam) /\ printed' # <<>>)
       => /\ printed'[1].pid = LineFacts[line].pid
          /\ \A f \in {"svc", "verdict"} : f \in stale => f \in SetBy(line)]_vars

\* the snapshot of the last emitted state, as the loop compares it
Snapshot == prev_camera_active \o "|" \o prev_service \o "|" \o prev_main_app

\* (cameraActive, service, normalized app) of a candidate
CandState(c) == c.cam \o "|" \o c.svc \o "|" \o c.app

\* C12: a candidate (service known, process resolved) is emitted iff its state
\* differs from the snapshot or at least 10 seconds have passed since the
\* last emission; the snapshot and last_log_time are overwritten with the
\* candidate's state and the clock exactly when it is emitted.
C12_UpstreamFilter ==
  [][/\ printed' # <<>> => cand' # <<>>
     /\ cand' # <<>>
        => LET state == CandState(cand'[1])
               emit == state # Snapshot \/ epoch - last_log_time >= 10
           IN /\ printed' # <<>> <=> emit
              /\ emit => /\ Snapshot' = state
                         /\ last_log_time' = epoch
                         /\ state = printed'[1].camera_active \o "|"
                                      \o printed'[1].service \o "|"
                                      \o NormalizedApps[printed'[1].process]
              /\ ~emit => UNCHANGED <<prev_camera_active, prev_service, prev_main_app,
                                      last_log_time>>]_vars

\* C12 witness: a candidate equal to the snapshot was suppressed 9 seconds
\* after the last emission
C12_SuppressedInCooldown ==
  /\ cand # <<>>
  /\ ~cand[1].emitted
  /\ printed = <<>>
  /\ CandState(cand[1]) = Snapshot
  /\ epoch - last_log_time = 9

\* C13: a candidate whose (camera, service, normalized app) equals that of the
\* last emitted record and that comes less than 10 seconds after it is not
\* emitted, whatever its front app.
C13_FrontAppNotInKey ==
  [][(/\ cand' # <<>>
      /\ CandState(cand'[1]) = Snapshot
      /\ epoch - last_log_time < 10)
     => (~cand'[1].emitted /\ printed' = <<>>)]_vars

\* C13 witness: a candidate whose front app differs from the front app of the
\* last emitted record, 1 second after it, was suppressed
C13_FocusChangeSuppressed ==
  /\ cand # <<>>
  /\ ~cand[1].emitted
  /\ cand[1].fg # prev_front_app
  /\ CandState(cand[1]) = Snapshot
  /\ epoch - last_log_time = 1

C15_FirstMatchWins ==
  fnLabel # <<>>
  => LET frontApp == Field(fnInput, "front_app")
         processName == Field(fnInput, "process")
         m == MatchingRules(frontApp, processName)
     IN /\ m # {} => fnLabel[1] = RuleTable[CHOOSE i \in m : \A j \in m : i <= j].label
        /\ m = {} => fnLabel[1] = IF frontApp # "" THEN frontApp ELSE "Meeting App"
        /\ (frontApp = "Google Chrome" /\ processName = "meet.google.com helper")
           => fnLabel[1] = "Google Meet"
        /\ (frontApp = "GOOGLE CHROME" /\ processName = "meet.google.com helper")
           => fnLabel[1] = "Google Meet"
        /\ (frontApp = "Finder" /\ processName = "ZOOM.US") => fnLabel[1] = "Zoom"
        /\ (frontApp = "Finder" /\ processName = "launchd") => fnLabel[1] = "Finder"
        /\ (frontApp = "" /\ processName = "launchd") => fnLabel[1] = "Meeting App"

\* C15 witness: a process name that matches the Slack and the Zoom branch,
\* with a front app that matches the Zoom branch, was labelled Slack
C15_OverlapResolved ==
  /\ fnLabel = <<"Slack">>
  /\ Field(fnInput, "process") = "Slack Helper (Zoom)"
  /\ Field(fnInput, "front_app") = "zoom.us"
  /\ Cardinality(MatchingRules("zoom.us", "Slack Helper (Zoom)")) = 2

\* the branches that name a service of their own in (frontApp, process):
\* those that match without the browser test
SpecificRules(frontApp, processName) ==
  LET app == toLowerCase(frontApp)
      proc == toLowerCase(processName)
  IN {i \in 1..Len(RuleTable) :
        RuleMatches([RuleTable[i] EXCEPT !.both = {}], app, proc)}

\* C20: when front app and process both contain 'chrome' and one of them also
\* names a service that has its own branch, the label is that service's label.
C20_BrowserMatchLast ==
  fnLabel # <<>>
  => LET frontApp == Field(fnInput, "front_app")
         processName == Field(fnInput, "process")
         specific == SpecificRules(frontApp, processName)
     IN (/\ includes(toLowerCase(frontApp), "chrome")
         /\ includes(toLowerCase(processName), "chrome")
         /\ specific # {})
        => fnLabel[1] = RuleTable[CHOOSE i \in specific : \A j \in specific : i <= j].label

\* the process names of the input lines that contain a denylisted name,
\* whatever the case
DenylistedProcesses ==
  {pn \in {ParsedLines[l].process : l \in DOMAIN ParsedLines} :
     \/ includes(toLowerCase(pn), "afplay")
     \/ includes(toLowerCase(pn), "sirincservice")}

\* C16: a well-formed record with a denylisted process name is dropped: it
\* is neither emitted nor reported nor treated as a duplicate; handled alone
\* it leaves the cache and the delivery history unchanged and raises
\* nothing; handled first in a chunk it leaves the second line to be judged
\* against the cache as it was before the chunk.
C16_NoiseDropped ==
  [][/\ \A j \in 1..Len(trace') :
          (/\ trace'[j].kind \in {"suppressed", "meeting", "duplicate"}
           /\ trace'[j].signal.process \in DenylistedProcesses)
          => trace'[j].kind = "suppressed"
     /\ \A j \in 1..Len(trace') :
          trace'[j].kind = "suppressed"
          => /\ trace'[j].signal.process \in DenylistedProcesses
             /\ \A k \in 1..Len(trace') : trace'[k].i = trace'[j].i => k = j
     /\ (Len(trace') = 1 /\ trace'[1].kind = "suppressed")
        => UNCHANGED <<recentSignals, lastFwd, hostCrashed>>
     /\ (/\ Len(trace') = 2 /\ trace'[1].kind = "suppressed"
         /\ trace'[2].kind \in {"meeting", "duplicate"}
         /\ trace'[2].signal.pid # "")
        => (trace'[2].kind = "duplicate"
            <=> /\ SignalKey(trace'[2].signal) \in DOMAIN recentSignals
                /\ now - recentSignals[SignalKey(trace'[2].signal)].timestamp < 60000)]_vars

\* C16 witness: a chunk held a denylisted record and then a record with the
\* same pid, service and verdict; the first was dropped, the second emitted
C16_NoiseThenSignal ==
  /\ Len(trace) = 2
  /\ trace[1].kind = "suppressed"
  /\ trace[2].kind = "meeting"
  /\ SignalKey(trace[1].signal) = SignalKey(trace[2].signal)
  /\ trace[1].signal.process = "SiriNCService"

\* the record of the scenario: microphone, allowed, pid 7390, front app
\* MSTeams, no camera in use
GrantRecord(rec) ==
  /\ rec.service = "microphone" /\ rec.verdict = "allowed" /\ rec.pid = "7390"
  /\ rec.front_app = "MSTeams" /\ rec.camera_active = "false"

GrantKey == "7390-Microsoft Teams-allowed"

C18_StopIdempotent ==
  [][/\ (Stop /\ process = 0)
        => /\ trace' = <<[i |-> 0, kind |-> "stop", h |-> 0]>>
           /\ UNCHANGED <<process, procs, nspawned, listeners, errorListeners,
                          recentSignals, options, hostCrashed, now>>
     /\ (Stop /\ process # 0) => process' = 0
     /\ \A j \in 1..Len(trace') :
          trace'[j].kind = "stop" => (Len(trace') = 1 /\ trace'[j].h = process)]_vars

\* C18 witness: stop() was called with no session active, after an earlier
\* stop() had terminated a subprocess
C18_StoppedTwice ==
  /\ trace = <<[i |-> 0, kind |-> "stop", h |-> 0]>>
  /\ process = 0
  /\ \E h \in 1..MaxSpawn : procs[h] = "killed"

\* an entry of a handler's trace that delivered a signal with a pid
DeliveredAt(tr, j) ==
  tr[j].kind = "meeting" /\ ~tr[j].threw /\ tr[j].signal.pid # ""

\* C19: the events of a handler come in the order of the lines that caused
\* them (the error raised by a throwing listener directly follows its
\* meeting event), and each line meets the cache as the lines before it left
\* it: of two lines with the same key in one chunk the first is emitted and
\* the second dropped.
C19_StreamOrder ==
  [][/\ \A j, k \in 1..Len(trace') :
          j < k
          => \/ trace'[j].i < trace'[k].i
             \/ /\ trace'[j].i = trace'[k].i /\ k = j + 1
                /\ trace'[j].kind = "meeting" /\ trace'[j].threw
                /\ trace'[k].kind \in {"error", "uncaught"}
                /\ trace'[k].cause = "listener"
     /\ \A k \in 1..Len(trace') :
          trace'[k].kind = "duplicate"
          => \/ SignalKey(trace'[k].signal) \in DOMAIN recentSignals
             \/ \E j \in 1..(k - 1) :
                  /\ DeliveredAt(trace', j)
                  /\ SignalKey(trace'[j].signal) = SignalKey(trace'[k].signal)
     /\ \A k \in 1..Len(trace') :
          (trace'[k].kind = "meeting" /\ trace'[k].signal.pid # "")
          => ~\E j \in 1..(k - 1) :
                 /\ DeliveredAt(trace', j)
                 /\ SignalKey(trace'[j].signal) = SignalKey(trace'[k].signal)]_vars

\* C19 witness: a chunk held the same record twice while the cache did not
\* know it; the first line was emitted, the second dropped
C19_FirstThenDuplicate ==
  /\ Len(trace) = 2
  /\ trace[1].i = 1 /\ trace[1].kind = "meeting" /\ ~trace[1].threw
  /\ trace[2].i = 2 /\ trace[2].kind = "duplicate"
  /\ trace[2].signal = trace[1].signal
  /\ lastFwd[SignalKey(trace[1].signal)] = now
  /\ Cardinality(DOMAIN recentSignals) = 1

\* the application a process name of the form '<App> Helper...' belongs to;
\* the name itself when it has no such form
Bundle(process_name) ==
  LET at == {i \in 1..(Len(process_name) - 6) : SubSeq(process_name, i, i + 6) = " Helper"}
  IN IF at = {} THEN process_name
     ELSE SubSeq(process_name, 1, (CHOOSE i \in at : \A j \in at : i <= j) - 1)

\* the label of the bundle whose name a process name contains, in the order
\* of the tests: Microsoft Teams, Google Chrome, Slack; "" for any other name
KnownLabel(process_name) ==
  IF includes(process_name, "Microsoft Teams") THEN "Microsoft Teams"
  ELSE IF includes(process_name, "Google Chrome") \/ includes(process_name, "Chrome Helper")
  THEN "Google Chrome"
  ELSE IF includes(process_name, "Slack") THEN "Slack"
  ELSE ""

\* C21 as stated: the normalized app of a candidate from '<App> Helper...' is
\* that of '<App>', and a candidate from a process of the bundle of the last
\* emitted record, with its service and camera state, less than 10 seconds
\* after it, is not emitted.
C21_HelpersCollapsed ==
  [][cand' # <<>>
     => /\ cand'[1].app = normalize_app(Bundle(cand'[1].process))
        /\ (/\ prev_process # ""
            /\ Bundle(cand'[1].process) = Bundle(prev_process)
            /\ cand'[1].cam = prev_camera_active
            /\ cand'[1].svc = prev_service
            /\ epoch - last_log_time < 10)
           => (~cand'[1].emitted /\ printed' = <<>>)]_vars

\* C21 amended: a process name that contains the name of the Microsoft
\* Teams, Google Chrome or Slack bundle is normalized to that bundle's label
\* and any other name to itself; a candidate from a process of the known
\* bundle of the last emitted record, with its service and camera state, less
\* than 10 seconds after it, is not emitted.
C21_KnownBundlesCollapsed ==
  [][cand' # <<>>
     => LET label == KnownLabel(cand'[1].process)
        IN /\ cand'[1].app = IF label # "" THEN label ELSE cand'[1].process
           /\ (/\ prev_process # ""
               /\ label # ""
               /\ label = KnownLabel(prev_process)
               /\ cand'[1].cam = prev_camera_active
               /\ cand'[1].svc = prev_service
               /\ epoch - last_log_time < 10)
              => (~cand'[1].emitted /\ printed' = <<>>)]_vars

\* C21 witness: a candidate from a Chrome helper process, 1 second after the
\* record of the Chrome main process was emitted with the same service and
\* camera state, was suppressed
C21_ChromeHelperSuppressed ==
  /\ cand # <<>>
  /\ ~cand[1].emitted
  /\ cand[1].process = "Google Chrome Helper (GPU)"
  /\ prev_process = "Google Chrome"
  /\ cand[1].cam = prev_camera_active /\ cand[1].svc = prev_service
  /\ epoch - last_log_time = 1

\* the kinds of entry the stdout handler leaves for a line
LineKinds == {"meeting", "duplicate", "suppressed", "error", "uncaught"}

\* C22: output of a subprocess that stop() has terminated, handled before or
\* after a restart, calls no meeting listener and leaves the cache unchanged.
C22_NoDeliveryAfterStop ==
  [][\A j \in 1..Len(trace') :
       (/\ trace'[j].kind \in LineKinds
        /\ "h" \in DOMAIN trace'[j]
        /\ procs[trace'[j].h] = "killed")
       => /\ ~(trace'[j].kind = "meeting" /\ trace'[j].calls # <<>>)
          /\ recentSignals' = recentSignals]_vars

\* C23: a signal dropped as a duplicate leaves its cache entry and the time
\* of the last delivery of its key as they were, and a signal with a pid is
\* emitted whenever its key was never delivered or was last delivered at
\* least 60000 ms ago.
C23_FixedWindow ==
  [][/\ \A j \in 1..Len(trace') :
          (trace'[j].kind = "duplicate"
           /\ ~\E k \in 1..(j - 1) :
                  /\ DeliveredAt(trace', k)
                  /\ SignalKey(trace'[k].signal) = SignalKey(trace'[j].signal))
          => LET key == SignalKey(trace'[j].signal)
             IN /\ key \in DOMAIN recentSignals
                /\ key \in DOMAIN recentSignals'
                /\ recentSignals'[key] = recentSignals[key]
                /\ lastFwd'[key] = lastFwd[key]
                /\ recentSignals[key].timestamp = lastFwd[key]
     /\ \A j \in 1..Len(trace') :
          (/\ trace'[j].i = 1
           /\ trace'[j].kind \in {"meeting", "duplicate"}
           /\ trace'[j].signal.pid # ""
           /\ \/ SignalKey(trace'[j].signal) \notin DOMAIN lastFwd
              \/ now' - lastFwd[SignalKey(trace'[j].signal)] >= 60000)
          => trace'[j].kind = "meeting"]_vars

\* C23 witness: the record, presented every 20000 ms from time 0 on, was
\* delivered at 60000 ms, after it was handled at 0, 20000 and 40000 ms
C23_ForwardedAfterDuplicates ==
  /\ now = 3 * 20000
  /\ ticks = 3
  /\ Len(trace) = 1
  /\ trace[1].kind = "meeting" /\ trace[1].calls = <<"cbA">>
  /\ lastFwd[SignalKey(trace[1].signal)] = now
  /\ recentSignals[SignalKey(trace[1].signal)].timestamp = now

\* the upstream resources
Resources == {"microphone", "camera"}

WholeLines(n) ==
  EventsOf(ProcessLines([cache |-> EmptyMap, trace |-> <<>>, crashed |-> FALSE],
                        1, SubSeq(stream, 1, n), now, listeners, errorListeners).trace)

\* C25: however the stream is cut into chunks, with an error listener
\* registered, the events emitted once pos lines have been delivered are those
\* of the first pos lines handled as whole lines.
C25_ChunkingIrrelevant ==
  errorListeners >= 1 => events = WholeLines(pos)

\* number of times callback cb is called by a delivery
TimesCalled(calls, cb) == Cardinality({i \in 1..Len(calls) : calls[i] = cb})

\* C26: a meeting event whose delivery no listener aborts calls every
\* registered callback once and no other callback, whatever starts and stops
\* came before; the first start(cb) of a new detector leaves it running with
\* cb as its only listener.
C26_DeliveredOnce ==
  [][/\ \A j \in 1..Len(trace') :
          (trace'[j].kind = "meeting" /\ ~trace'[j].threw)
          => \A cb \in Callbacks :
               TimesCalled(trace'[j].calls, cb)
                 = IF \E i \in 1..Len(listeners) : listeners[i] = cb THEN 1 ELSE 0
     /\ \A cb \in Callbacks :
          (nspawned = 0 /\ listeners = <<>> /\ StartSpawns(cb))
          => (process' # 0 /\ listeners' = <<cb>>)]_vars

\* C27: with an error listener registered, a signal with a pid that was
\* passed to at least one meeting listener, whether or not a listener threw,
\* has its key in the cache with the time of the delivery when the handler
\* goes on, and a later line of the chunk with the same key is dropped.
C27_DeliveredIsRecorded ==
  [][errorListeners >= 1
     => \A j \in 1..Len(trace') :
          (/\ trace'[j].kind = "meeting"
           /\ trace'[j].calls # <<>>
           /\ trace'[j].signal.pid # "")
          => LET key == SignalKey(trace'[j].signal)
             IN /\ key \in DOMAIN recentSignals'
                /\ recentSignals'[key].timestamp = now'
                /\ \A k \in (j + 1)..Len(trace') :
                     (/\ trace'[k].kind \in {"meeting", "duplicate"}
                      /\ SignalKey(trace'[k].signal) = key)
                     => trace'[k].kind = "duplicate"]_vars

====
